---------------------------- MODULE Spec2Model ----------------------------
(***************************************************************************)
(* Model of pdf_to_csv_converter.py: the label/value splitter, the         *)
(* line-oriented statement parser, the keyword classifier, the CSV         *)
(* conversion and the command-line driver.                                 *)
(*                                                                         *)
(* A Python string is modelled as a sequence of atoms.  An atom is either  *)
(* one character ("1", ".", " ") or a whole word of the statement format   *)
(* ("Értéknap", "HUF", "osztalék") standing for its characters; no word    *)
(* atom is a substring of another one that a different test looks for.     *)
(* "NBSP" is the non-breaking space U+00A0.                                *)
(***************************************************************************)
EXTENDS Integers, Sequences, FiniteSets, TLC

VARIABLES
    \* parse_statement_text / convert_pdf_to_csv
    pc,            \* position: "loop" (in the for loop), "parsed", "written",
                   \* "raised" (an exception left parse_statement_text)
    text,          \* the raw lines consumed so far, in order
    raw_line,      \* the loop variable raw_line
    heap,          \* the dict objects created so far; a reference is an index
    current,       \* reference to the open record, or None
    transactions,  \* the output list: references to the appended records
    rows,          \* the CSV rows written by convert_pdf_to_csv
    \* _classify_transaction called on its own
    description, amount_str, txn_type,
    \* main
    mpc,           \* position of main
    target,        \* what the path argument names
    entries,       \* the names in the target directory (or the target file)
    pdf_files,     \* the files still to convert, in iteration order
    converting,    \* the file convert_pdf_to_csv is running on
    extracted,     \* the text pdftotext wrote for it
    outcome,       \* per file: how pdftotext ended for it
    attempts,      \* per file: how many times convert_pdf_to_csv was called
    csv,           \* per CSV path: its content
    tmp,           \* the temporary files that exist
    stdout, stderr,
    ret            \* main's return value: <<>> until it returns, then <<code>>

parseVars == <<pc, text, raw_line, heap, current, transactions, rows>>
classVars == <<description, amount_str, txn_type>>
mainVars  ==
    <<mpc, target, entries, pdf_files, converting, extracted, outcome, attempts, csv,
      tmp, stdout, stderr, ret>>
vars      == <<parseVars, classVars, mainVars>>

\* ------------------------------------------------------------------------
\* Bounds of the model
MaxLines   == 3    \* lines of one statement text
MaxValLen  == 3    \* atoms of a value enumerated exhaustively
MaxDescLen == 2    \* atoms of a description handed to the classifier

\* ------------------------------------------------------------------------
\* Strings

SP   == " "
NBSP == "NBSP"

\* str.isspace / \s of a Unicode pattern: the non-breaking space is whitespace
IsSpace(c) == c \in {SP, NBSP}

RECURSIVE lstrip(_)
lstrip(s) == IF s # <<>> /\ IsSpace(Head(s)) THEN lstrip(Tail(s)) ELSE s

RECURSIVE rstrip(_)
rstrip(s) ==
    IF s # <<>> /\ IsSpace(s[Len(s)]) THEN rstrip(SubSeq(s, 1, Len(s) - 1)) ELSE s

strip(s) == rstrip(lstrip(s))

\* str.rstrip(chars): every trailing atom that is in chars is dropped
RECURSIVE rstripChars(_, _)
rstripChars(s, chars) ==
    IF s # <<>> /\ s[Len(s)] \in chars
    THEN rstripChars(SubSeq(s, 1, Len(s) - 1), chars)
    ELSE s

\* str.replace(old, new) for a one-atom old
RECURSIVE replace(_, _, _)
replace(s, old, new) ==
    IF s = <<>> THEN <<>>
    ELSE (IF Head(s) = old THEN new ELSE <<Head(s)>>) \o replace(Tail(s), old, new)

startswith(s, prefix) ==
    Len(s) >= Len(prefix) /\ SubSeq(s, 1, Len(prefix)) = prefix

\* sub in s
contains(s, sub) ==
    \E i \in 1..(Len(s) - Len(sub) + 1) : SubSeq(s, i, i + Len(sub) - 1) = sub

RECURSIVE join(_, _)
join(parts, sep) ==
    IF parts = <<>> THEN <<>>
    ELSE IF Len(parts) = 1 THEN parts[1]
    ELSE parts[1] \o sep \o join(Tail(parts), sep)

\* the last index of the whitespace run that starts at i
RECURSIVE RunEnd(_, _)
RunEnd(s, i) == IF i < Len(s) /\ IsSpace(s[i + 1]) THEN RunEnd(s, i + 1) ELSE i

\* re.split(r"\s{2,}", s): s cut at every maximal run of two or more whitespace
RECURSIVE resplit(_, _, _)
resplit(s, i, part) ==
    IF i > Len(s) THEN <<part>>
    ELSE IF IsSpace(s[i]) /\ RunEnd(s, i) > i
         THEN <<part>> \o resplit(s, RunEnd(s, i) + 1, <<>>)
         ELSE resplit(s, i + 1, Append(part, s[i]))

\* split_label_value: <<label, value>>
split_label_value(line) ==
    LET parts == resplit(strip(line), 1, <<>>)
    IN  IF Len(parts) >= 2
        THEN <<parts[1], strip(join(Tail(parts), <<SP>>))>>
        ELSE <<strip(line), <<>>>>


\* ------------------------------------------------------------------------
\* Numbers: float(), comparison with zero and the "{:.2f}" rendering.
\* A parsed value is nan, or the finite decimal (-1)^neg * num / 10^scale.

DigitChars == <<"0", "1", "2", "3", "4", "5", "6", "7", "8", "9">>
IsDigit(c) == \E d \in 1..10 : DigitChars[d] = c
DigitVal(c) == (CHOOSE d \in 1..10 : DigitChars[d] = c) - 1

RECURSIVE Pow10(_)
Pow10(k) == IF k = 0 THEN 1 ELSE 10 * Pow10(k - 1)

RECURSIVE DigitsVal(_)
DigitsVal(s) ==
    IF s = <<>> THEN 0 ELSE 10 * DigitsVal(SubSeq(s, 1, Len(s) - 1)) + DigitVal(s[Len(s)])

RECURSIVE IntToStr(_)
IntToStr(n) ==
    IF n < 10 THEN <<DigitChars[n + 1]>>
    ELSE IntToStr(n \div 10) \o <<DigitChars[(n % 10) + 1]>>

\* float(s) for s made of digits, ".", a sign, whitespace, "nan" and atoms no
\* number contains: [ok |-> FALSE] stands for ValueError
ParseFloat(s0) ==
    LET s      == strip(s0)
        signed == s # <<>> /\ s[1] \in {"-", "+"}
        neg    == s # <<>> /\ s[1] = "-"
        body   == IF signed THEN Tail(s) ELSE s
        dots   == {i \in 1..Len(body) : body[i] = "."}
        digs   == {i \in 1..Len(body) : IsDigit(body[i])}
        dot    == CHOOSE i \in dots : TRUE
    IN  IF body = <<"nan">> THEN [ok |-> TRUE, kind |-> "nan"]
        ELSE IF /\ dots \cup digs = 1..Len(body)
                /\ Cardinality(dots) <= 1
                /\ digs # {}
        THEN [ok |-> TRUE, kind |-> "fin", neg |-> neg,
              num |-> DigitsVal(replace(body, ".", <<>>)),
              scale |-> IF dots = {} THEN 0 ELSE Len(body) - dot]
        ELSE [ok |-> FALSE]

Positive(v) == v.kind = "fin" /\ ~v.neg /\ v.num > 0     \* v > 0
Negative(v) == v.kind = "fin" /\ v.neg /\ v.num > 0      \* v < 0
IsZero(v)   == v.kind = "fin" /\ v.num = 0               \* v == 0

\* f"{v:.2f}": rounded to hundredths, sign kept (also of a negative zero).
\* An exact tie x.xx5 is rounded by its binary neighbour in Python; the digits
\* enumerated here (0, 1, 9) produce no tie.
Format2f(v) ==
    IF v.kind = "nan" THEN <<"nan">>
    ELSE LET h == IF v.scale <= 2 THEN v.num * Pow10(2 - v.scale)
                  ELSE (2 * v.num + Pow10(v.scale - 2)) \div (2 * Pow10(v.scale - 2))
         IN  (IF v.neg THEN <<"-">> ELSE <<>>) \o IntToStr(h \div 100) \o <<".">>
             \o <<DigitChars[((h \div 10) % 10) + 1], DigitChars[(h % 10) + 1]>>

\* ------------------------------------------------------------------------
\* parse_statement_text

None == 0

L_Cimzett  == "Címzett neve"
L_Megbizo  == "Megbízó neve"
L_Jovairas == "Jóváírás összege"
L_Terheles == "Terhelés összege"
L_Erteknap == "Értéknap"
L_Kozlemeny == "Közlemény"
L_Megjegyzes == "Megjegyzés"
L_Partner  == "Partnerek közti egyedi azonosító"

\* the six label tests, on the stripped line
IsTriggerLine(line) == startswith(line, <<L_Cimzett>>) \/ startswith(line, <<L_Megbizo>>)
IsAmountLine(line)  == contains(line, <<L_Jovairas>>) \/ contains(line, <<L_Terheles>>)
IsDateLine(line)    == startswith(line, <<L_Erteknap>>)
IsReferenceLine(line) == startswith(line, <<L_Kozlemeny>>)
IsNoteLine(line)    == startswith(line, <<L_Megjegyzes>>)
IsIdLine(line)      == startswith(line, <<L_Partner>>)

\* the dict literal of a new transaction
NewRecord(value) ==
    [name |-> value, date |-> <<>>, amount |-> <<>>, reference |-> <<>>,
     note |-> <<>>, id |-> <<>>]

\* mutant: a record counts as open only once its name is non-empty
TruthyByName(h, cur) == cur # None /\ h[cur].name # <<>>

\* truth value of `current`: None and the empty dict are false
Truthy(h, cur) == cur # None /\ DOMAIN h[cur] # {}

\* the normalized amount text amt_str
NormalizeAmount(value) ==
    LET a1 == replace(replace(value, "HUF", <<>>), "Ft", <<>>)
        a2 == SelectSeq(a1, LAMBDA c : ~IsSpace(c))
    IN  replace(replace(a2, ".", <<>>), ",", <<".">>)

\* the exception float() raises on text that is no number, and what the
\* except clause of the amount branch catches
FloatError == "ValueError"
AmountHandlerCatches == {"ValueError"}

\* mutant: the fallback stores the normalized text amt_str
AmountFieldNormalized(value) ==
    LET f == ParseFloat(NormalizeAmount(value))
    IN  IF f.ok THEN Format2f(f) ELSE NormalizeAmount(value)

\* what the amount branch stores in current["amount"]
AmountField(value) ==
    LET f == ParseFloat(NormalizeAmount(value))
    IN  IF f.ok THEN Format2f(f) ELSE value

\* mutant: only one trailing dot is dropped
DateFieldOneDot(value) ==
    LET v == strip(value)
    IN  replace(IF v # <<>> /\ v[Len(v)] = "." THEN SubSeq(v, 1, Len(v) - 1) ELSE v,
                ".", <<"-">>)

\* what the value-date branch stores in current["date"]
DateField(value) == replace(rstripChars(strip(value), {"."}), ".", <<"-">>)

\* current[field] = v: the object `current` refers to is changed in place
StoreField(h, cur, field, v) == [h EXCEPT ![cur] = [@ EXCEPT ![field] = v]]

\* mutant: the open dict is refilled in place instead of a fresh one being made
OpenRecordReuse(h, cur, txs, value) ==
    IF cur = None
    THEN [heap |-> Append(h, NewRecord(value)), current |-> Len(h) + 1,
          transactions |-> txs, exc |-> "none"]
    ELSE [heap |-> [h EXCEPT ![cur] = NewRecord(value)], current |-> cur,
          transactions |-> Append(txs, cur), exc |-> "none"]

\* the trigger branch: flush the open record, bind current to a fresh dict
OpenRecord(h, cur, txs, value) ==
    [heap |-> Append(h, NewRecord(value)),
     current |-> Len(h) + 1,
     transactions |-> IF Truthy(h, cur) THEN Append(txs, cur) ELSE txs,
     exc |-> "none"]

\* mutant: the amount test is tried after the prefix tests
BranchAmountLast(line, cur) ==
    IF IsTriggerLine(line) THEN "name"
    ELSE IF cur = None THEN "ignored"
    ELSE IF IsDateLine(line) THEN "date"
    ELSE IF IsReferenceLine(line) THEN "reference"
    ELSE IF IsNoteLine(line) THEN "note"
    ELSE IF IsIdLine(line) THEN "id"
    ELSE IF IsAmountLine(line) THEN "amount"
    ELSE "ignored"

\* the branch of the loop body a non-blank line takes: the tests in the order
\* the code tries them, each ending the iteration with `continue`
Branch(line, cur) ==
    IF IsTriggerLine(line) THEN "name"
    ELSE IF cur = None THEN "ignored"
    ELSE IF IsAmountLine(line) THEN "amount"
    ELSE IF IsDateLine(line) THEN "date"
    ELSE IF IsReferenceLine(line) THEN "reference"
    ELSE IF IsNoteLine(line) THEN "note"
    ELSE IF IsIdLine(line) THEN "id"
    ELSE "ignored"

\* one iteration of the for loop over the lines; exc names an exception that
\* leaves the function
ProcessLine(h, cur, txs, raw) ==
    LET line  == strip(raw)
        value == split_label_value(raw)[2]
        same  == [heap |-> h, current |-> cur, transactions |-> txs, exc |-> "none"]
        store(field, v) == [same EXCEPT !.heap = StoreField(h, cur, field, v)]
        b     == Branch(line, cur)
    IN  IF line = <<>> THEN same
        ELSE CASE b = "name" -> OpenRecord(h, cur, txs, value)
               [] b = "amount" ->
                    IF ParseFloat(NormalizeAmount(value)).ok
                       \/ FloatError \in AmountHandlerCatches
                    THEN store("amount", AmountField(value))
                    ELSE [same EXCEPT !.exc = FloatError]
               [] b = "date" -> store("date", DateField(value))
               [] b = "reference" -> store("reference", value)
               [] b = "note" -> store("note", value)
               [] b = "id" -> store("id", value)
               [] OTHER -> same

\* after the loop: append the final transaction if present
Finish(h, cur, txs) == IF Truthy(h, cur) THEN Append(txs, cur) ELSE txs

\* the list of dicts a list of references denotes
Deref(h, txs) == [i \in 1..Len(txs) |-> h[txs[i]]]

\* parse_statement_text as a function of the whole text
RECURSIVE ParseFrom(_, _, _, _)
ParseFrom(h, cur, txs, lines) ==
    IF lines = <<>> THEN Deref(h, Finish(h, cur, txs))
    ELSE LET r == ProcessLine(h, cur, txs, Head(lines))
         IN  IF r.exc # "none" THEN <<>>
             ELSE ParseFrom(r.heap, r.current, r.transactions, Tail(lines))

parse_statement_text(lines) == ParseFrom(<<>>, None, <<>>, lines)


\* ------------------------------------------------------------------------
\* _classify_transaction

Labels ==
    {"Expense", "Income", "Refund", "Transfer", "Investment - Buy",
     "Investment - Sell", "Investment - Dividend", "Investment - Capital Gain",
     "Investment - Capital Loss"}

\* str.lower() on the atoms that have upper-case letters
LowerAtom(a) ==
    CASE a = "REFUND" -> "refund"
      [] a = "HUF" -> "huf"
      [] a = "Ft" -> "ft"
      [] a = "ACME" -> "acme"
      [] OTHER -> a

lower(s) == [i \in 1..Len(s) |-> LowerAtom(s[i])]

\* re.search of an alternation of plain words: some atom is one of them
SearchAny(desc, words) == \E i \in 1..Len(desc) : desc[i] \in words

\* \w at the first / last character of an atom: letters, digits and "_" are
\* word characters; whitespace, "-", "." and "," are not, "/ref/salary" starts
\* with "/"
NonWordAtoms == {SP, NBSP, "-", ".", ","}
WordStart(a) == a \notin NonWordAtoms /\ a # "/ref/salary"
WordEnd(a)   == a \notin NonWordAtoms

\* re.search(r"\b(w1|w2|...)\b", desc)
SearchWord(desc, words) ==
    \E i \in 1..Len(desc) :
        /\ desc[i] \in words
        /\ (i = 1 \/ ~WordEnd(desc[i - 1]))
        /\ (i = Len(desc) \/ ~WordStart(desc[i + 1]))

\* re.search(r"tőke[\s_-]*nyereség", desc); the atom "toke" stands for "tőke"
\* (and "kereskedoi" below for "kereskedői"): strings hold Latin-1 only
SearchTokeNyereseg(desc) ==
    \E i, j \in 1..Len(desc) :
        /\ i < j
        /\ desc[i] = "toke"
        /\ desc[j] = "nyereség"
        /\ \A k \in (i + 1)..(j - 1) : IsSpace(desc[k]) \/ desc[k] \in {"_", "-"}

RefundRule(desc)   == SearchAny(desc, {"refund", "visszatérítés", "visszautalás"})
TransferRule(desc) == SearchAny(desc, {"átvezetés", "transfer"})
DividendRule(desc) == SearchAny(desc, {"osztalék", "dividend"})
GainRule(desc)     ==
    SearchTokeNyereseg(desc) \/ SearchAny(desc, {"capital gain", "nyereség"})
LossRule(desc)     == SearchAny(desc, {"veszteség", "loss"})
BuyRule(desc)      == SearchWord(desc, {"buy", "purchase", "vétel"})
SellRule(desc)     == SearchWord(desc, {"sell", "eladás"})
SalaryRule(desc)   == SearchAny(desc, {"/ref/salary", "salary", "munkabér"})
InterestRule(desc) == SearchAny(desc, {"kamat"})
ExpenseRule(desc)  ==
    SearchAny(desc, {"pos", "kereskedoi", "bankkártya", "kártya", "díja", "levonás",
                     "szocho", "hitel", "törlesztés", "biztosítás", "nyugd"})

\* the amount the classifier compares: 0.0 unless amount_str parses
ClassifierAmount(amt) ==
    LET f == ParseFloat(amt)
    IN  IF f.ok THEN f ELSE [ok |-> TRUE, kind |-> "fin", neg |-> FALSE, num |-> 0, scale |-> 0]

\* mutant: the dividend and salary rules are tried before the refund rule
classify_refund_late(descr, amt) ==
    LET desc   == lower(descr)
        amount == ClassifierAmount(amt)
    IN  IF TransferRule(desc) THEN "Transfer"
        ELSE IF DividendRule(desc) THEN "Investment - Dividend"
        ELSE IF GainRule(desc) THEN "Investment - Capital Gain"
        ELSE IF LossRule(desc) THEN "Investment - Capital Loss"
        ELSE IF BuyRule(desc) THEN "Investment - Buy"
        ELSE IF SellRule(desc) THEN "Investment - Sell"
        ELSE IF SalaryRule(desc) THEN "Income"
        ELSE IF RefundRule(desc) THEN "Refund"
        ELSE IF InterestRule(desc) THEN (IF Positive(amount) THEN "Income" ELSE "Expense")
        ELSE IF ExpenseRule(desc) THEN "Expense"
        ELSE IF Positive(amount) THEN "Income"
        ELSE IF Negative(amount) THEN "Expense"
        ELSE "Transfer"

classify_transaction(descr, amt) ==
    LET desc   == lower(descr)
        amount == ClassifierAmount(amt)
    IN  IF RefundRule(desc) THEN "Refund"
        ELSE IF TransferRule(desc) THEN "Transfer"
        ELSE IF DividendRule(desc) THEN "Investment - Dividend"
        ELSE IF GainRule(desc) THEN "Investment - Capital Gain"
        ELSE IF LossRule(desc) THEN "Investment - Capital Loss"
        ELSE IF BuyRule(desc) THEN "Investment - Buy"
        ELSE IF SellRule(desc) THEN "Investment - Sell"
        ELSE IF SalaryRule(desc) THEN "Income"
        ELSE IF InterestRule(desc) THEN (IF Positive(amount) THEN "Income" ELSE "Expense")
        ELSE IF ExpenseRule(desc) THEN "Expense"
        ELSE IF Positive(amount) THEN "Income"
        ELSE IF Negative(amount) THEN "Expense"
        ELSE "Transfer"

\* ------------------------------------------------------------------------
\* convert_pdf_to_csv: the row written for one record

\* rec.get("reference", "") or rec.get("note", ""), stripped
BaseDesc(rec) == strip(IF rec.reference # <<>> THEN rec.reference ELSE rec.note)

\* mutant: the classifier is handed the counterparty name
ClassifierInputName(rec) == strip(rec.name)

\* the text handed to the classifier
ClassifierInput(rec) == BaseDesc(rec)

RowDescription(rec) ==
    LET base_desc == BaseDesc(rec)
        name_part == strip(rec.name)
    IN  IF name_part # <<>> /\ base_desc # <<>>
        THEN name_part \o <<SP, "-", SP>> \o base_desc
        ELSE IF name_part # <<>> THEN name_part
        ELSE base_desc

OutputRow(rec) ==
    [date |-> rec.date, amount |-> rec.amount,
     type |-> classify_transaction(ClassifierInput(rec), rec.amount),
     description |-> RowDescription(rec)]

\* the rows after the header
OutputRows(records) == [i \in 1..Len(records) |-> OutputRow(records[i])]


\* ------------------------------------------------------------------------
\* Inputs

\* all strings of at most n atoms of alphabet A
SeqsUpTo(A, n) == UNION {[1..k -> A] : k \in 0..n}

\* lines of the statement machine: blank lines, triggers with and without a
\* value, every field label, amounts that parse and that do not, a date with
\* two trailing dots, a line that passes two label tests, unlabelled text
ParseLines ==
    { <<>>,
      <<SP, SP>>,
      <<L_Cimzett, SP, SP, "ACME">>,
      <<L_Megbizo>>,
      <<SP, L_Cimzett, SP, NBSP, "osztalék">>,
      <<L_Megbizo, SP, SP, L_Jovairas>>,
      <<L_Jovairas, SP, SP, "1", "0", SP, "HUF">>,
      <<L_Terheles, SP, SP, "-", "1", NBSP, "0", ",", "0", "1", "9", "Ft">>,
      <<L_Jovairas, SP, SP, "x", SP, "HUF">>,
      <<L_Erteknap, SP, SP, "1", ".", "1", ".">>,
      <<L_Erteknap, SP, SP, "1", ".", ".">>,
      <<L_Kozlemeny, SP, SP, "osztalék">>,
      <<L_Kozlemeny, SP, SP, "REFUND", SP, "osztalék">>,
      <<L_Kozlemeny, SP, SP, L_Terheles, SP, "1">>,
      <<L_Megjegyzes, SP, SP, "kamat">>,
      <<L_Partner, SP, SP, "1">>,
      <<"x", SP, "1">> }

\* lines of the one-field machine: a trigger, then one line drawn from every
\* amount value, every date value and every mix of labels up to MaxValLen atoms
TriggerLines == { <<L_Cimzett, SP, SP, "ACME">>, <<L_Megbizo>> }

AmountAtoms == {"1", ",", ".", "-", SP, "HUF", "x", "nan"}
DateAtoms   == {"1", ".", SP, "-"}
LabelAtoms  ==
    {L_Cimzett, L_Megbizo, L_Jovairas, L_Terheles, L_Erteknap, L_Kozlemeny,
     L_Megjegyzes, L_Partner, SP, "x"}

AmountLines == { <<L_Jovairas, SP, SP>> \o v : v \in SeqsUpTo(AmountAtoms, MaxValLen) }
DateLines  == { <<L_Erteknap, SP, SP>> \o v : v \in SeqsUpTo(DateAtoms, MaxValLen) }
LabelLines ==
    SeqsUpTo(LabelAtoms, MaxValLen)
    \cup { <<lbl, SP, SP>> \o v : lbl \in LabelAtoms \ {SP, "x"},
                                  v \in SeqsUpTo(LabelAtoms, MaxValLen - 1) }

\* ------------------------------------------------------------------------
\* The statement machine: parse_statement_text line by line, then the rows
\* convert_pdf_to_csv writes

IdleParse ==
    /\ pc = "idle" /\ text = <<>> /\ raw_line = <<>> /\ heap = <<>>
    /\ current = None /\ transactions = <<>> /\ rows = <<>>

IdleClass == description = <<>> /\ amount_str = <<>> /\ txn_type = "none"

IdleMain ==
    /\ mpc = "idle" /\ target = "none" /\ entries = {} /\ pdf_files = <<>>
    /\ converting = "none" /\ extracted = <<>> /\ outcome = <<>>
    /\ attempts = <<>> /\ csv = <<>> /\ tmp = {} /\ stdout = <<>> /\ stderr = <<>>
    /\ ret = <<>>

InitParse ==
    /\ pc = "loop" /\ text = <<>> /\ raw_line = <<>> /\ heap = <<>>
    /\ current = None /\ transactions = <<>> /\ rows = <<>>
    /\ IdleClass /\ IdleMain

\* the loop body run on the next line of the text
ReadLine(l) ==
    /\ pc = "loop"
    /\ text' = Append(text, l)
    /\ raw_line' = l
    /\ LET r == ProcessLine(heap, current, transactions, l)
       IN  /\ heap' = r.heap
           /\ current' = r.current
           /\ transactions' = r.transactions
           /\ pc' = IF r.exc = "none" THEN "loop" ELSE "raised"
    /\ UNCHANGED <<rows, classVars, mainVars>>

\* the text is exhausted: flush the open record and return
EndOfInput ==
    /\ pc = "loop"
    /\ transactions' = Finish(heap, current, transactions)
    /\ pc' = "parsed"
    /\ UNCHANGED <<text, raw_line, heap, current, rows, classVars, mainVars>>

\* convert_pdf_to_csv writes one row per returned record
WriteRows ==
    /\ pc = "parsed"
    /\ rows' = OutputRows(Deref(heap, transactions))
    /\ pc' = "written"
    /\ UNCHANGED <<text, raw_line, heap, current, transactions, classVars, mainVars>>

NextParse ==
    \/ pc = "loop" /\ Len(text) < MaxLines /\ \E l \in ParseLines : ReadLine(l)
    \/ EndOfInput
    \/ WriteRows

SpecParse == InitParse /\ [][NextParse]_vars

\* the one-field machine: a trigger line, then one line
NextField ==
    \/ pc = "loop" /\ text = <<>> /\ \E l \in TriggerLines : ReadLine(l)
    \/ pc = "loop" /\ Len(text) = 1
          /\ \E l \in AmountLines \cup DateLines \cup LabelLines : ReadLine(l)
    \/ EndOfInput
    \/ WriteRows

SpecField == InitParse /\ [][NextField]_vars


\* ------------------------------------------------------------------------
\* Properties of the statement parser

Fields == {"name", "date", "amount", "reference", "note", "id"}

\* the records parse_statement_text returns
Returned == Deref(heap, transactions)

\* the trigger lines of the text read, in order
TriggersRead == SelectSeq(text, LAMBDA l : IsTriggerLine(strip(l)))

\* C1: the parser returns exactly one record per trigger line, in order of
\* appearance, the i-th named by the split value of the i-th trigger line, also
\* when that value is empty; lines before the first trigger give no record.
C1_OneRecordPerTrigger ==
    pc \in {"parsed", "written"} =>
        /\ Len(Returned) = Len(TriggersRead)
        /\ \A i \in 1..Len(Returned) :
              Returned[i].name = split_label_value(TriggersRead[i])[2]

\* a text of unlabelled text, a trigger without a value and a second trigger
\* has been parsed into two records, the first all empty
C1_Witness ==
    /\ pc = "parsed"
    /\ Len(text) = 3
    /\ strip(text[1]) # <<>> /\ ~IsTriggerLine(strip(text[1]))
    /\ Len(Returned) = 2
    /\ Returned[1] = NewRecord(<<>>)

\* the step reads a line while record `current` is open, and the line is not
\* blank and no trigger
ReadsFieldLine ==
    /\ pc = "loop" /\ text' = Append(text, raw_line')
    /\ current # None
    /\ strip(raw_line') # <<>>
    /\ ~IsTriggerLine(strip(raw_line'))

\* the step reads an amount-label line whose normalized text is no number
ReadsBadAmount ==
    /\ ReadsFieldLine
    /\ \/ contains(strip(raw_line'), <<L_Jovairas>>)
       \/ contains(strip(raw_line'), <<L_Terheles>>)
    /\ ~ParseFloat(NormalizeAmount(split_label_value(raw_line')[2])).ok

\* C3 (as amended): when an amount-label line is read while a record is open
\* and the normalized amount text does not parse as a number, the record's
\* amount becomes the split value as it stands, before normalization, and no
\* exception leaves the parser.
C3_FallbackKeepsSplitValue ==
    [][ReadsBadAmount =>
          /\ pc' = "loop"
          /\ current' = current
          /\ heap'[current].amount = split_label_value(raw_line')[2]]_vars

\* C3 (as claimed): ... the record's amount becomes the normalized string.
C3_FallbackKeepsNormalized ==
    [][ReadsBadAmount =>
          /\ pc' = "loop"
          /\ heap'[current].amount = NormalizeAmount(split_label_value(raw_line')[2])]_vars

\* an amount line whose text is no number, and differs from its normalized
\* form, has been read into the open record
C3_Witness ==
    /\ pc = "loop" /\ Len(text) = 2 /\ current # None
    /\ IsAmountLine(strip(raw_line))
    /\ LET value == split_label_value(raw_line)[2]
       IN  /\ ~ParseFloat(NormalizeAmount(value)).ok
           /\ NormalizeAmount(value) # value
           /\ heap[current].amount = value

\* the step reads a value-date line
ReadsDate ==
    /\ ReadsFieldLine
    /\ ~contains(strip(raw_line'), <<L_Jovairas>>)
    /\ ~contains(strip(raw_line'), <<L_Terheles>>)
    /\ startswith(strip(raw_line'), <<L_Erteknap>>)

\* s without its trailing dots: the longest prefix of s that does not end in "."
WithoutTrailingDots(s) ==
    LET ends == {k \in 0..Len(s) : k = 0 \/ s[k] # "."}
        k    == CHOOSE m \in ends : \A n \in ends : n <= m
    IN  SubSeq(s, 1, k)

\* s without one trailing dot, if it has one
WithoutOneTrailingDot(s) ==
    IF s # <<>> /\ s[Len(s)] = "." THEN SubSeq(s, 1, Len(s) - 1) ELSE s

\* C4 (as amended): when a value-date line is read while a record is open, the
\* record's date becomes the split value trimmed, with every trailing "."
\* dropped and then every remaining "." replaced by "-".
C4_DateDropsAllTrailingDots ==
    [][ReadsDate =>
          /\ current' = current
          /\ heap'[current].date =
                replace(WithoutTrailingDots(strip(split_label_value(raw_line')[2])),
                        ".", <<"-">>)]_vars

\* C4 (as claimed): ... with exactly one trailing "." dropped, so that a value
\* ending in two dots keeps one, rendered as a trailing "-".
C4_DateDropsOneTrailingDot ==
    [][ReadsDate =>
          heap'[current].date =
              replace(WithoutOneTrailingDot(strip(split_label_value(raw_line')[2])),
                      ".", <<"-">>)]_vars

\* a date ending in two dots has been read, and stored without either
C4_Witness ==
    /\ pc = "loop" /\ Len(text) = 2 /\ current # None
    /\ raw_line = <<L_Erteknap, SP, SP, "1", ".", ".">>
    /\ heap[current].date = <<"1">>

\* C7: a record is never revisited after it was appended: no later step changes
\* a field of it, and the prefix of the output already emitted is never
\* changed, reordered or shortened.
C7_NoRevisit ==
    [][/\ Len(transactions') >= Len(transactions)
       /\ SubSeq(Deref(heap', transactions'), 1, Len(transactions)) = Returned]_vars

\* a date was stored in the open record after an earlier record, which has no
\* date, was appended
C7_Witness ==
    /\ pc = "loop" /\ current # None
    /\ Len(transactions) >= 1
    /\ IsDateLine(strip(raw_line))
    /\ heap[current].date # <<>>
    /\ Returned[1].date = <<>>

\* the label tests a stripped line passes
TestsPassed(line) ==
    {t \in {"name", "amount", "date", "reference", "note", "id"} :
        CASE t = "name" -> \/ startswith(line, <<L_Cimzett>>)
                           \/ startswith(line, <<L_Megbizo>>)
          [] t = "amount" -> contains(line, <<L_Jovairas>>) \/ contains(line, <<L_Terheles>>)
          [] t = "date" -> startswith(line, <<L_Erteknap>>)
          [] t = "reference" -> startswith(line, <<L_Kozlemeny>>)
          [] t = "note" -> startswith(line, <<L_Megjegyzes>>)
          [] t = "id" -> startswith(line, <<L_Partner>>)}

\* the field the first test passed, in the order the tests are tried, stands for
FirstField(line) ==
    LET p == TestsPassed(line)
    IN  IF "amount" \in p THEN {"amount"}
        ELSE IF "date" \in p THEN {"date"}
        ELSE IF "reference" \in p THEN {"reference"}
        ELSE IF "note" \in p THEN {"note"}
        ELSE IF "id" \in p THEN {"id"}
        ELSE {}

\* C8 (as claimed): no line passes more than one of the six label tests.
C8_TestsExclusive == Cardinality(TestsPassed(strip(raw_line))) <= 1

\* C8 (as amended): the five prefix tests (trigger, value-date, reference, note,
\* partner-id) exclude one another, but the amount test is a substring test
\* and a line can pass it together with one of them; the tests are tried in
\* the order trigger, amount, value-date, reference, note, partner-id and the
\* first one passed decides: a line read while a record is open changes no
\* field but the one of the first test it passes, and a reference, note or
\* partner-id line sets that field to the split value.
C8_FirstTestDecides ==
    [][text' = Append(text, raw_line') =>
          /\ Cardinality(TestsPassed(strip(raw_line')) \ {"amount"}) <= 1
          /\ ReadsFieldLine =>
                /\ current' = current
                /\ Len(heap') = Len(heap)
                /\ \A f \in Fields \ FirstField(strip(raw_line')) :
                      heap'[current][f] = heap[current][f]
                /\ \A f \in FirstField(strip(raw_line')) \cap {"reference", "note", "id"} :
                      heap'[current][f] = split_label_value(raw_line')[2]]_vars

\* a line that passes the reference test and the amount test has been read:
\* it set the amount and left the reference empty
C8_Witness ==
    /\ pc = "loop" /\ Len(text) = 2 /\ current # None
    /\ {"amount", "reference"} \subseteq TestsPassed(strip(raw_line))
    /\ heap[current].amount # <<>>
    /\ heap[current].reference = <<>>

\* C6 (as claimed): every record whose output-row description, composed from
\* name and reference/note, contains "osztalék" and whose amount is positive
\* is written with type "Investment - Dividend".
C6_DividendByRowDescription ==
    pc = "written" =>
        \A i \in 1..Len(rows) :
            /\ contains(rows[i].description, <<"osztalék">>)
            /\ Positive(ClassifierAmount(rows[i].amount))
            => rows[i].type = "Investment - Dividend"

\* C6 (as amended): every record whose reference text (the note text when the
\* reference is empty), which is what the classifier is handed and does not
\* include the name, contains "osztalék" in any letter case and no refund or
\* transfer keyword, and whose amount is positive, is written with type
\* "Investment - Dividend" and not "Income".
C6_DividendByReference ==
    pc = "written" =>
        \A i \in 1..Len(rows) :
            LET rec  == Returned[i]
                base == lower(strip(IF rec.reference # <<>> THEN rec.reference
                                                             ELSE rec.note))
            IN  /\ contains(base, <<"osztalék">>)
                /\ ~RefundRule(base) /\ ~TransferRule(base)
                /\ Positive(ClassifierAmount(rec.amount))
                => rows[i].type = "Investment - Dividend"

\* a record with a positive amount and the reference "osztalék" has been
\* written as a dividend
C6_Witness ==
    /\ pc = "written"
    /\ \E i \in 1..Len(rows) :
          /\ Returned[i].reference = <<"osztalék">>
          /\ Positive(ClassifierAmount(rows[i].amount))
          /\ contains(rows[i].description, <<"osztalék">>)
          /\ rows[i].type = "Investment - Dividend"


\* ------------------------------------------------------------------------
\* The classifier on its own

DescAtoms ==
    {"refund", "REFUND", "átvezetés", "osztalék", "toke", "nyereség", "veszteség",
     "buy", "sell", "salary", "kamat", "pos", "a", SP, "-"}

AmountStrings ==
    { <<>>, <<"x">>, <<"nan">>, <<"0">>, <<"-", "0", ".", "0", "0">>, <<"1">>,
      <<"-", "1">>, <<"1", "0", ".", "0", "0">> }

InitClassify ==
    /\ description \in SeqsUpTo(DescAtoms, MaxDescLen)
    /\ amount_str \in AmountStrings
    /\ txn_type = "none"
    /\ IdleParse /\ IdleMain

Classify ==
    /\ txn_type = "none"
    /\ txn_type' = classify_transaction(description, amount_str)
    /\ UNCHANGED <<description, amount_str, parseVars, mainVars>>

NextClassify == Classify

SpecClassify == InitClassify /\ [][NextClassify]_vars

\* rule i of the classifier's list holds of the lower-cased description
RuleHolds(i, desc) ==
    CASE i = 1 -> RefundRule(desc)
      [] i = 2 -> TransferRule(desc)
      [] i = 3 -> DividendRule(desc)
      [] i = 4 -> GainRule(desc)
      [] i = 5 -> LossRule(desc)
      [] i = 6 -> BuyRule(desc)
      [] i = 7 -> SellRule(desc)
      [] i = 8 -> SalaryRule(desc)
      [] i = 9 -> InterestRule(desc)
      [] i = 10 -> ExpenseRule(desc)
      [] OTHER -> TRUE

\* the labels rule i allows for amount a
RuleLabels(i, a) ==
    CASE i = 1 -> {"Refund"}
      [] i = 2 -> {"Transfer"}
      [] i = 3 -> {"Investment - Dividend"}
      [] i = 4 -> {"Investment - Capital Gain"}
      [] i = 5 -> {"Investment - Capital Loss"}
      [] i = 6 -> {"Investment - Buy"}
      [] i = 7 -> {"Investment - Sell"}
      [] i = 8 -> {"Income"}
      [] i = 9 -> IF Positive(a) THEN {"Income"} ELSE {"Expense"}
      [] i = 10 -> {"Expense"}
      [] OTHER -> {l \in Labels : /\ Positive(a) => l = "Income"
                                  /\ Negative(a) => l = "Expense"
                                  /\ IsZero(a) => l = "Transfer"}

\* C2: the classifier is total and first-match: every description and amount
\* string, also one that is no number (taken as 0), gets exactly one of the
\* nine labels, the one of the lowest-numbered rule that holds in the order
\* refund, transfer, dividend, capital gain, loss, buy, sell, salary, interest
\* (Income if amount > 0 else Expense), expense keywords, sign fallback (> 0
\* Income, < 0 Expense, = 0 Transfer); a refund keyword gives Refund whatever
\* the sign and whatever later rules hold.
C2_TotalFirstMatch ==
    txn_type # "none" =>
        LET desc  == lower(description)
            f     == ParseFloat(amount_str)
            a     == IF f.ok THEN f
                     ELSE [ok |-> TRUE, kind |-> "fin", neg |-> FALSE, num |-> 0, scale |-> 0]
            first == CHOOSE i \in 1..11 :
                         RuleHolds(i, desc) /\ \A j \in 1..(i - 1) : ~RuleHolds(j, desc)
        IN  /\ txn_type \in Labels
            /\ txn_type \in RuleLabels(first, a)
            /\ RefundRule(desc) => txn_type = "Refund"

\* a description with a refund and a dividend keyword and a negative amount
\* has been classified as a refund
C2_Witness ==
    /\ description = <<"REFUND", "osztalék">>
    /\ amount_str = <<"-", "1">>
    /\ txn_type = "Refund"

\* ------------------------------------------------------------------------
\* main, convert_pdf_to_csv and extract_text_from_pdf on a file system

PdfNames   == {"a.pdf", "a.PDF", "b.pdf"}
OtherNames == {"notes.txt"}
CsvPaths   == {"a.csv", "b.csv"}

\* p.suffix.lower()
SuffixLower(p) == IF p \in PdfNames THEN ".pdf" ELSE ".txt"

\* pdf_path.with_suffix(".csv")
CsvOf(p) == IF p = "b.pdf" THEN "b.csv" ELSE "a.csv"

Absent == [exists |-> FALSE, rows |-> <<>>]
OldCsv ==
    [exists |-> TRUE,
     rows |-> <<[date |-> <<"o", "l", "d">>, amount |-> <<>>, type |-> "Expense",
                 description |-> <<>>]>>]

\* what pdftotext can write for a PDF
SampleTexts ==
    { <<>>,
      << <<L_Cimzett, SP, SP, "ACME">>,
         <<L_Erteknap, SP, SP, "1", ".", "1", ".">>,
         <<L_Jovairas, SP, SP, "1", "0", SP, "HUF">>,
         <<L_Kozlemeny, SP, SP, "osztalék">> >> }

\* the rows convert_pdf_to_csv writes for an extracted text: the text parsed
\* and every record turned into a row (tabulated over the texts above)
ConvertedRows == [txt \in SampleTexts |-> OutputRows(parse_statement_text(txt))]

\* how subprocess.run can end: normally, FileNotFoundError (no pdftotext),
\* CalledProcessError (non-zero exit)
ToolOutcomes == {"ok", "not_found", "nonzero"}

\* the orders iterdir() can list the set S in
Orders(S) ==
    {q \in [1..Cardinality(S) -> S] : \A i, j \in 1..Cardinality(S) : q[i] = q[j] => i = j}

InitMain ==
    /\ mpc = "start"
    /\ target \in {"directory", "pdf_file", "other_file", "missing"}
    /\ entries \in CASE target = "directory" -> SUBSET (PdfNames \cup OtherNames)
                     [] target = "pdf_file" -> {{p} : p \in PdfNames}
                     [] target = "other_file" -> {{p} : p \in OtherNames}
                     [] OTHER -> {{}}
    /\ pdf_files = <<>>
    /\ converting = "none"
    /\ extracted = <<>>
    /\ outcome = [p \in PdfNames |-> "none"]
    /\ attempts = [p \in PdfNames |-> 0]
    /\ csv \in [CsvPaths -> {Absent, OldCsv}]
    /\ tmp = {}
    /\ stdout = <<>> /\ stderr = <<>>
    /\ ret = <<>>
    /\ IdleParse /\ IdleClass

\* mutant: the CSV is opened for writing before the text is extracted
convert_opens_first(c, path, out, txt) ==
    IF out = "ok"
    THEN [c EXCEPT ![path] = [exists |-> TRUE, rows |-> ConvertedRows[txt]]]
    ELSE [c EXCEPT ![path] = [exists |-> TRUE, rows |-> <<>>]]

\* convert_pdf_to_csv: the CSV files after the call, given how the extraction
\* ended and the text it returned
convert_pdf_to_csv(c, path, out, txt) ==
    IF out = "ok"
    THEN [c EXCEPT ![path] = [exists |-> TRUE, rows |-> ConvertedRows[txt]]]
    ELSE c

\* mutant: the loop is left at the first failure
StopAfterFailure(files) == <<>>

\* the files main goes on with after the except clause has reported a failure
AfterFailure(files) == Tail(files)

\* main up to the first conversion: the target is a PDF file, a directory, or
\* neither
Start ==
    /\ mpc = "start"
    /\ CASE target = "pdf_file" ->
              /\ pdf_files' \in Orders(entries)
              /\ mpc' = "single"
              /\ UNCHANGED <<stdout, stderr, ret>>
         [] target = "directory" ->
              /\ pdf_files' \in Orders({p \in entries : SuffixLower(p) = ".pdf"})
              /\ IF pdf_files' = <<>>
                 THEN /\ stdout' = Append(stdout, <<"No PDF files found">>)
                      /\ ret' = <<0>>
                      /\ mpc' = "done"
                 ELSE /\ mpc' = "batch"
                      /\ UNCHANGED <<stdout, ret>>
              /\ UNCHANGED stderr
         [] OTHER ->
              /\ stderr' = Append(stderr, <<"Error: not a valid directory or PDF file">>)
              /\ ret' = <<1>>
              /\ mpc' = "done"
              /\ UNCHANGED <<pdf_files, stdout>>
    /\ UNCHANGED <<target, entries, converting, extracted, outcome, attempts, csv, tmp,
                   parseVars, classVars>>

\* convert_pdf_to_csv is called on the next file; extract_text_from_pdf makes
\* its temporary file
BeginConvert ==
    /\ mpc \in {"single", "batch"}
    /\ pdf_files # <<>>
    /\ converting' = Head(pdf_files)
    /\ attempts' = [attempts EXCEPT ![Head(pdf_files)] = @ + 1]
    /\ tmp' = tmp \cup {Head(pdf_files)}
    /\ mpc' = IF mpc = "single" THEN "single_extract" ELSE "batch_extract"
    /\ UNCHANGED <<target, entries, pdf_files, extracted, outcome, csv, stdout, stderr,
                   ret, parseVars, classVars>>

\* pdftotext runs.  When it ends normally the text is in the temporary file;
\* otherwise RuntimeError leaves extract_text_from_pdf and convert_pdf_to_csv
\* and main's except clause reports the file
RunPdftotext ==
    /\ mpc \in {"single_extract", "batch_extract"}
    /\ \E out \in ToolOutcomes, txt \in SampleTexts :
          /\ outcome' = [outcome EXCEPT ![converting] = out]
          /\ IF out = "ok"
             THEN /\ extracted' = txt
                  /\ mpc' = IF mpc = "single_extract" THEN "single_read" ELSE "batch_read"
                  /\ UNCHANGED <<pdf_files, csv, stderr>>
             ELSE /\ csv' = convert_pdf_to_csv(csv, CsvOf(converting), out, txt)
                  /\ stderr' = Append(stderr, <<"Failed to convert", converting>>)
                  /\ pdf_files' = AfterFailure(pdf_files)
                  /\ mpc' = IF mpc = "single_extract" THEN "single" ELSE "batch"
                  /\ UNCHANGED extracted
    /\ UNCHANGED <<target, entries, converting, attempts, tmp, stdout, ret,
                   parseVars, classVars>>

\* the text is read back and the temporary file unlinked; an OSError of
\* unlink is swallowed and the file stays
ReadAndUnlink ==
    /\ mpc \in {"single_read", "batch_read"}
    /\ \E unlinked \in BOOLEAN : tmp' = IF unlinked THEN tmp \ {converting} ELSE tmp
    /\ mpc' = IF mpc = "single_read" THEN "single_write" ELSE "batch_write"
    /\ UNCHANGED <<target, entries, pdf_files, converting, extracted, outcome, attempts,
                   csv, stdout, stderr, ret, parseVars, classVars>>

\* the text is parsed, the CSV opened and written, and main prints the file
WriteCsv ==
    /\ mpc \in {"single_write", "batch_write"}
    /\ csv' = convert_pdf_to_csv(csv, CsvOf(converting), "ok", extracted)
    /\ stdout' = Append(stdout, <<"Converted", converting>>)
    /\ pdf_files' = Tail(pdf_files)
    /\ mpc' = IF mpc = "single_write" THEN "single" ELSE "batch"
    /\ UNCHANGED <<target, entries, converting, extracted, outcome, attempts, tmp,
                   stderr, ret, parseVars, classVars>>

\* no file is left: return 0
Return ==
    /\ mpc \in {"single", "batch"}
    /\ pdf_files = <<>>
    /\ ret' = <<0>>
    /\ mpc' = "done"
    /\ UNCHANGED <<target, entries, pdf_files, converting, extracted, outcome, attempts,
                   csv, tmp, stdout, stderr, parseVars, classVars>>

NextMain == Start \/ BeginConvert \/ RunPdftotext \/ ReadAndUnlink \/ WriteCsv \/ Return

SpecMain == InitMain /\ [][NextMain]_vars

\* main is one thread that runs to its return: each step is taken
FairSpecMain == SpecMain /\ WF_vars(NextMain)


\* ------------------------------------------------------------------------
\* Properties of main

\* the PDF files of the target directory
PdfsOf == {p \in entries : SuffixLower(p) = ".pdf"}

\* the extraction of p raised RuntimeError
Failed(p) == outcome[p] \in {"not_found", "nonzero"}

\* how often p is reported on the error stream
Reported(p) ==
    Cardinality({i \in 1..Len(stderr) : stderr[i] = <<"Failed to convert", p>>})

\* C5: in directory mode a failed extraction (tool missing or non-zero exit)
\* aborts only that file's conversion: whatever files there are and whichever
\* fail, main eventually has attempted every PDF file exactly once, has
\* reported each failure on the error stream, and returns 0; it returns 1 only
\* when the target is neither a directory nor a .pdf file.
C5_BatchSurvivesFailures ==
    /\ <>(mpc = "done")
    /\ [](\A p \in PdfNames : attempts[p] <= 1)
    /\ [](mpc = "done" /\ target = "directory" =>
            /\ ret = <<0>>
            /\ \A p \in PdfsOf : attempts[p] = 1
            /\ \A p \in PdfsOf : Reported(p) = IF Failed(p) THEN 1 ELSE 0)
    /\ [](ret = <<1>> => target \in {"other_file", "missing"})

\* a directory run has ended in which a file failed and a file was converted
\* after it
C5_Witness ==
    /\ mpc = "done" /\ target = "directory" /\ ret = <<0>>
    /\ Failed("a.pdf")
    /\ outcome["b.pdf"] = "ok"
    /\ stderr = << <<"Failed to convert", "a.pdf">> >>
    /\ stdout = << <<"Converted", "b.pdf">> >>

\* the step ends a conversion by a failed extraction
ExtractionFails ==
    /\ mpc \in {"single_extract", "batch_extract"}
    /\ outcome'[converting] \in {"not_found", "nonzero"}

\* C9: a failed extraction never touches the output CSV: the CSV is opened
\* (created or truncated) only after the text was extracted, so a conversion
\* whose extraction raises creates no CSV and leaves an existing one as it
\* was; and a directory without PDF files has no CSV written.
C9_FailedExtractionLeavesCsv ==
    [][/\ ExtractionFails => csv' = csv
       /\ csv' # csv => /\ mpc \in {"single_write", "batch_write"}
                        /\ outcome[converting] = "ok"
                        /\ \A q \in CsvPaths \ {CsvOf(converting)} : csv'[q] = csv[q]
       /\ (target = "directory" /\ PdfsOf = {}) => csv' = csv]_vars

\* a run has ended in which the extraction of b.pdf failed and the b.csv that
\* was there before is unchanged, while a.csv was written
C9_Witness ==
    /\ mpc = "done"
    /\ Failed("b.pdf")
    /\ csv["b.csv"] = OldCsv
    /\ outcome["a.pdf"] = "ok"
    /\ csv["a.csv"] # OldCsv /\ csv["a.csv"].exists

\* C10: every temporary file extract_text_from_pdf made is gone when the call
\* has finished, on the success path and on both failure paths, so none is
\* left after any sequence of conversions.
C10_TempFilesRemoved ==
    mpc \in {"single", "batch", "single_write", "batch_write", "done"} => tmp = {}

=============================================================================
